---- MODULE Spec2Model ----
(***************************************************************************)
(* Model of YouTubeDownloader (src/src/downloader.py): the four validated  *)
(* constraint setters, the stream selection of _set_streams and the        *)
(* retrieval sequence of download_streams, over a catalog of pytube        *)
(* Stream descriptors captured at construction.                            *)
(*                                                                         *)
(* Python strings are sequences of one-character strings, so lower(),      *)
(* the "in" substring test, str.replace() and int() are computed.          *)
(* A missing attribute value (Python None) is the empty sequence for the   *)
(* string attributes and 0 for fps.                                        *)
(***************************************************************************)
EXTENDS Integers, Sequences, FiniteSets, TLC

VARIABLES _all_streams, _resolution, _video_type, _audio_type, _fps,
          _video_stream, _audio_stream, last

vars == <<_all_streams, _resolution, _video_type, _audio_type, _fps,
          _video_stream, _audio_stream, last>>

constraintSet == <<_resolution, _video_type, _audio_type, _fps>>

(* ------------------------------ bounds -------------------------------- *)

MaxCatalog == 4

(* --------------------------- Python strings --------------------------- *)

UpperToLower ==
  [c \in {"A","B","C","D","E","F","G","H","I","J","K","L","M","N","O","P",
          "Q","R","S","T","U","V","W","X","Y","Z"} |->
     CASE c = "A" -> "a" [] c = "B" -> "b" [] c = "C" -> "c" [] c = "D" -> "d"
       [] c = "E" -> "e" [] c = "F" -> "f" [] c = "G" -> "g" [] c = "H" -> "h"
       [] c = "I" -> "i" [] c = "J" -> "j" [] c = "K" -> "k" [] c = "L" -> "l"
       [] c = "M" -> "m" [] c = "N" -> "n" [] c = "O" -> "o" [] c = "P" -> "p"
       [] c = "Q" -> "q" [] c = "R" -> "r" [] c = "S" -> "s" [] c = "T" -> "t"
       [] c = "U" -> "u" [] c = "V" -> "v" [] c = "W" -> "w" [] c = "X" -> "x"
       [] c = "Y" -> "y" [] c = "Z" -> "z"]

\* str.lower()
lower(s) ==
  [k \in 1..Len(s) |-> IF s[k] \in DOMAIN UpperToLower THEN UpperToLower[s[k]] ELSE s[k]]

\* sub occurs in s at position k
OccursAt(s, sub, k) ==
  /\ k >= 1
  /\ k + Len(sub) - 1 <= Len(s)
  /\ \A j \in 1..Len(sub) : s[k + j - 1] = sub[j]

\* the Python test  sub in s
Contains(s, sub) == \E k \in 1..(Len(s) + 1) : OccursAt(s, sub, k)

RECURSIVE ReplaceFrom(_, _, _, _)
ReplaceFrom(s, old, new, k) ==
  IF k > Len(s) THEN <<>>
  ELSE IF OccursAt(s, old, k) THEN new \o ReplaceFrom(s, old, new, k + Len(old))
  ELSE <<s[k]>> \o ReplaceFrom(s, old, new, k + 1)

\* str.replace(old, new) for a non-empty old: every non-overlapping
\* occurrence, left to right
replace(s, old, new) == ReplaceFrom(s, old, new, 1)

Digits == {"0","1","2","3","4","5","6","7","8","9"}

DigitVal(c) ==
  CASE c = "0" -> 0 [] c = "1" -> 1 [] c = "2" -> 2 [] c = "3" -> 3
    [] c = "4" -> 4 [] c = "5" -> 5 [] c = "6" -> 6 [] c = "7" -> 7
    [] c = "8" -> 8 [] c = "9" -> 9

\* int(s) succeeds (strings of the model carry no sign, blank or underscore)
IsIntLiteral(s) == Len(s) > 0 /\ \A k \in 1..Len(s) : s[k] \in Digits

RECURSIVE IntOf(_)
\* int(s) for a string of decimal digits
IntOf(s) ==
  IF Len(s) = 0 THEN 0
  ELSE 10 * IntOf(SubSeq(s, 1, Len(s) - 1)) + DigitVal(s[Len(s)])

(* --------------------------- Python values ---------------------------- *)

\* a value that is either an int or a str, as the fps setter receives it
IntV(n) == [t |-> "int", i |-> n, s |-> <<>>]
StrV(x) == [t |-> "str", i |-> 0, s |-> x]
NoneV == [t |-> "none", i |-> 0, s |-> <<>>]

(* ------------------------------ literals ------------------------------ *)

p_ == <<"p">>
video_ == <<"v","i","d","e","o","/">>
audio_ == <<"a","u","d","i","o","/">>
kbps_ == <<"k","b","p","s">>
mp4_ == <<"m","p","4">>
webm_ == <<"w","e","b","m">>
r720p == <<"7","2","0","p">>
r1080p == <<"1","0","8","0","p">>

(* ------------------------------ catalog ------------------------------- *)

\* The pytube Stream attributes the program reads.  is_progressive marks a
\* stream carrying both tracks (two codecs); the others are adaptive.
StreamPool ==
  << [itag |-> 22,  mime_type |-> video_ \o mp4_,  resolution |-> r720p,
     fps |-> 30, abr |-> <<"1","9","2">> \o kbps_, is_progressive |-> TRUE],
    [itag |-> 136, mime_type |-> video_ \o mp4_,  resolution |-> r720p,
     fps |-> 30, abr |-> <<>>, is_progressive |-> FALSE],
    [itag |-> 247, mime_type |-> video_ \o webm_, resolution |-> r720p,
     fps |-> 30, abr |-> <<>>, is_progressive |-> FALSE],
    [itag |-> 299, mime_type |-> video_ \o mp4_,  resolution |-> r1080p,
     fps |-> 60, abr |-> <<>>, is_progressive |-> FALSE],
    [itag |-> 251, mime_type |-> audio_ \o webm_, resolution |-> <<>>,
     fps |-> 0,  abr |-> <<"1","6","0">> \o kbps_, is_progressive |-> FALSE],
    [itag |-> 250, mime_type |-> audio_ \o webm_, resolution |-> <<>>,
     fps |-> 0,  abr |-> <<"7","0">> \o kbps_, is_progressive |-> FALSE],
    [itag |-> 140, mime_type |-> audio_ \o mp4_,  resolution |-> <<>>,
     fps |-> 0,  abr |-> <<"1","2","8">> \o kbps_, is_progressive |-> FALSE] >>

Reverse(q) == [k \in 1..Len(q) |-> q[Len(q) + 1 - k]]

\* the descriptors of the pool chosen by the index set S, in pool order
Pick(S) ==
  LET In(k) == k \in S
      idx == SelectSeq([k \in 1..Len(StreamPool) |-> k], In)
  IN [j \in 1..Len(idx) |-> StreamPool[idx[j]]]

\* catalogs: up to MaxCatalog distinct descriptors of the pool, listed in
\* pool order (muxed, video-only, audio-only, as pytube lists them) or in
\* the reverse order
Catalogs ==
  UNION { { Pick(S), Reverse(Pick(S)) } :
          S \in { T \in SUBSET (1..Len(StreamPool)) :
                    Cardinality(T) >= 1 /\ Cardinality(T) <= MaxCatalog } }

\* pytube Stream.type: the major part of the mime type
type(s) == IF OccursAt(s.mime_type, video_, 1) THEN "video"
           ELSE IF OccursAt(s.mime_type, audio_, 1) THEN "audio" ELSE "other"

includes_video_track(s) == s.is_progressive \/ type(s) = "video"
includes_audio_track(s) == s.is_progressive \/ type(s) = "audio"

\* the catalog indices 1..Len(cat), the order in which filter() scans
indices(cat) == [k \in 1..Len(cat) |-> k]

\* variant: the filter keeps every stream with a video track
get_video_streams_any_video(cat) ==
  LET T(k) == includes_video_track(cat[k])
  IN SelectSeq(indices(cat), T)

\* StreamQuery.filter(only_video=True)
get_video_streams(cat) ==
  LET T(k) == includes_video_track(cat[k]) /\ ~includes_audio_track(cat[k])
  IN SelectSeq(indices(cat), T)

\* StreamQuery.filter(only_audio=True)
get_audio_streams(cat) ==
  LET T(k) == includes_audio_track(cat[k]) /\ ~includes_video_track(cat[k])
  IN SelectSeq(indices(cat), T)

\* StreamQuery.filter(only_video=True, adaptive=True)
get_adaptive_video_streams(cat) ==
  LET T(k) == /\ includes_video_track(cat[k]) /\ ~includes_audio_track(cat[k])
              /\ ~cat[k].is_progressive
  IN SelectSeq(indices(cat), T)

\* StreamQuery.filter(**params) for the keys the program passes; a key left
\* out of params, or given a false value, adds no filter
get_filtered_streams(cat, params) ==
  LET T(k) ==
        /\ ("resolution" \in DOMAIN params /\ params["resolution"] # <<>>)
             => cat[k].resolution = params["resolution"]
        /\ ("fps" \in DOMAIN params /\ params["fps"] # 0)
             => cat[k].fps = params["fps"]
        /\ ("mime_type" \in DOMAIN params /\ params["mime_type"] # <<>>)
             => cat[k].mime_type = params["mime_type"]
  IN SelectSeq(indices(cat), T)

Range(f) == { f[k] : k \in DOMAIN f }

(* ------------------------------ setters ------------------------------- *)

\* Outcome of a setter call: the exception that leaves it (raised, msg and
\* the two values interpolated into the message: the rejected value and the
\* values listed as available), the log records written, and the assignment
\* to the private field, if one was executed.
Raise(msg, value, listed, log, new) ==
  [raised |-> "ValueError", msg |-> msg, value |-> value, listed |-> listed,
   log |-> log, assign |-> FALSE, new |-> new]

Return(log, new) ==
  [raised |-> "none", msg |-> "", value |-> NoneV, listed |-> {},
   log |-> log, assign |-> TRUE, new |-> new]

\* variant: the raw input is not lower-cased
resolution_setter_no_lower(cat, raw) ==
  LET resolution == IF ~Contains(raw, p_) THEN raw \o p_ ELSE raw
      available_video_resolutions ==
        { cat[k].resolution : k \in Range(get_video_streams(cat)) }
  IN IF resolution \notin available_video_resolutions
     THEN Raise("resolution_not_available", StrV(resolution),
                { StrV(x) : x \in available_video_resolutions }, <<>>, resolution)
     ELSE Return(<<>>, resolution)

\* @resolution.setter
resolution_setter(cat, raw) ==
  LET r1 == lower(raw)
      resolution == IF ~Contains(r1, p_) THEN r1 \o p_ ELSE r1
      available_video_resolutions ==
        { cat[k].resolution : k \in Range(get_video_streams(cat)) }
  IN IF resolution \notin available_video_resolutions
     THEN Raise("resolution_not_available", StrV(resolution),
                { StrV(x) : x \in available_video_resolutions }, <<>>, resolution)
     ELSE Return(<<>>, resolution)

\* @video_type.setter
video_type_setter(cat, raw) ==
  LET video_type == IF Contains(raw, video_) THEN replace(raw, video_, <<>>) ELSE raw
      available_video_types ==
        { replace(cat[k].mime_type, video_, <<>>) : k \in Range(get_video_streams(cat)) }
  IN IF video_type \notin available_video_types
     THEN Raise("video_type_not_available", StrV(video_type),
                { StrV(x) : x \in available_video_types }, <<>>, video_ \o video_type)
     ELSE Return(<<>>, video_ \o video_type)

\* variant: the value is stored without the membership test
audio_type_setter_unchecked(cat, raw) ==
  LET audio_type == IF Contains(raw, audio_) THEN replace(raw, audio_, <<>>) ELSE raw
  IN Return(<<>>, audio_ \o audio_type)

\* @audio_type.setter
audio_type_setter(cat, raw) ==
  LET audio_type == IF Contains(raw, audio_) THEN replace(raw, audio_, <<>>) ELSE raw
      available_audio_types ==
        { replace(cat[k].mime_type, audio_, <<>>) : k \in Range(get_audio_streams(cat)) }
  IN IF audio_type \notin available_audio_types
     THEN Raise("audio_type_not_available", StrV(audio_type),
                { StrV(x) : x \in available_audio_types }, <<>>, audio_ \o audio_type)
     ELSE Return(<<>>, audio_ \o audio_type)

\* variant: the field is assigned before the membership test
fps_setter_assign_first(cat, raw) ==
  LET fps == IF raw.t = "int" THEN raw
             ELSE IF IsIntLiteral(raw.s) THEN IntV(IntOf(raw.s)) ELSE raw
      available_fps == { cat[k].fps : k \in Range(get_video_streams(cat)) }
  IN IF ~(fps.t = "int" /\ fps.i \in available_fps)
     THEN [Raise("fps_not_available", fps, {fps}, <<>>, fps.i) EXCEPT !.assign = TRUE]
     ELSE Return(<<>>, fps.i)

\* @fps.setter: a str is passed to int(); the ValueError of int() is caught
\* and logged, and the method goes on with the value it was given.  The
\* message of the ValueError it raises interpolates fps twice.
fps_setter(cat, raw) ==
  LET coercible == raw.t = "int" \/ IsIntLiteral(raw.s)
      fps == IF raw.t = "int" THEN raw
             ELSE IF IsIntLiteral(raw.s) THEN IntV(IntOf(raw.s)) ELSE raw
      log == IF coercible THEN <<>>
             ELSE << "INFO FPS value should be a digit.",
                     "ERROR invalid literal for int()" >>
      available_fps == { cat[k].fps : k \in Range(get_video_streams(cat)) }
  IN IF ~(fps.t = "int" /\ fps.i \in available_fps)
     THEN Raise("fps_not_available", fps, {fps}, log, fps.i)
     ELSE Return(log, fps.i)

(* ----------------------------- selection ------------------------------ *)

\* the sort key of _set_streams: int(stream.abr.replace("kbps", ""))
abr_key(s) == IntOf(replace(s.abr, kbps_, <<>>))

abr_parses(s) == IsIntLiteral(replace(s.abr, kbps_, <<>>))

\* variant: the candidates are left in catalog order
sorted_by_abr_unsorted(cat, idxs) == idxs

RECURSIVE sorted_by_abr(_, _)
\* sorted(audio_streams, key=...): ascending and stable
sorted_by_abr(cat, idxs) ==
  IF idxs = <<>> THEN <<>>
  ELSE LET rest == sorted_by_abr(cat, SubSeq(idxs, 1, Len(idxs) - 1))
           x == idxs[Len(idxs)]
           n == Cardinality({ j \in 1..Len(rest) : abr_key(cat[rest[j]]) <= abr_key(cat[x]) })
       IN SubSeq(rest, 1, n) \o <<x>> \o SubSeq(rest, n + 1, Len(rest))

\* _set_streams: the exception that leaves it, and the assignments to
\* _video_stream and _audio_stream executed before it (streams are named by
\* their catalog index)
_set_streams(cat, resolution, video_type, audio_type, fps) ==
  LET audio_params == [k \in {"mime_type"} |-> audio_type]
      video_params == [resolution |-> resolution, mime_type |-> video_type, fps |-> fps]
      video_streams == get_filtered_streams(cat, video_params)
      audio_streams == get_filtered_streams(cat, audio_params)
      NoAssign(exc, msg) ==
        [raised |-> exc, msg |-> msg, set_video |-> FALSE, video |-> 0,
         set_audio |-> FALSE, audio |-> 0]
  IN IF video_streams = <<>>
       THEN NoAssign("ValueError", "video_stream_not_found")
     ELSE IF \E k \in Range(audio_streams) : ~abr_parses(cat[k])
       THEN NoAssign("ValueError", "invalid_literal_for_int")
     ELSE IF DOMAIN audio_params = {}
       THEN NoAssign("ValueError", "audio_stream_not_found")
     ELSE IF audio_streams = <<>>
       THEN [raised |-> "IndexError", msg |-> "list_index_out_of_range",
             set_video |-> TRUE, video |-> video_streams[1],
             set_audio |-> FALSE, audio |-> 0]
     ELSE LET sorted == sorted_by_abr(cat, audio_streams)
          IN [raised |-> "none", msg |-> "",
              set_video |-> TRUE, video |-> video_streams[1],
              set_audio |-> TRUE, audio |-> sorted[Len(sorted)]]

\* variant: the audio stream is retrieved before the video stream
download_calls_audio_first(sel, xfer) ==
  LET v == [stream |-> sel.video, filename_prefix |-> "video_"]
      a == [stream |-> sel.audio, filename_prefix |-> "audio_"]
  IN IF sel.raised # "none" THEN <<>>
     ELSE IF xfer = "video_fails" THEN <<a>>
     ELSE <<a, v>>

\* download_streams: the Retriever calls made after _set_streams returned;
\* xfer names the call of Stream.download that fails, if any
download_calls(sel, xfer) ==
  LET v == [stream |-> sel.video, filename_prefix |-> "video_"]
      a == [stream |-> sel.audio, filename_prefix |-> "audio_"]
  IN IF sel.raised # "none" THEN <<>>
     ELSE IF xfer = "video_fails" THEN <<v>>
     ELSE <<v, a>>

(* ------------------------------ inputs -------------------------------- *)

ResolutionInputs == { <<"7","2","0">>, <<"1","0","8","0","P">>, <<"4","8","0","p">> }
VideoTypeInputs == { mp4_, video_ \o webm_, <<"a","v","i">> }
AudioTypeInputs == { webm_, audio_ \o mp4_, <<"o","g","g">> }
FpsInputs == { IntV(30), IntV(24), StrV(<<"6","0">>), StrV(<<"a","b","c">>) }
Transfers == { "ok", "video_fails", "audio_fails" }

(* ---------------------------- state machine --------------------------- *)

\* what the last call did, as its caller observes it
Outcome(op, arg, r, selected, retrieved) ==
  [op |-> op, arg |-> arg, raised |-> r.raised, msg |-> r.msg,
   value |-> r.value, listed |-> r.listed, log |-> r.log,
   selected |-> selected, retrieved |-> retrieved]

\* __init__: the four setters run in the order resolution, video_type,
\* audio_type, fps; the object exists only if none of them raised
Init ==
  \E cat \in Catalogs, r \in ResolutionInputs, v \in VideoTypeInputs,
     a \in AudioTypeInputs, f \in FpsInputs :
    LET rr == resolution_setter(cat, r)
        vr == video_type_setter(cat, v)
        ar == audio_type_setter(cat, a)
        fr == fps_setter(cat, f)
    IN /\ rr.raised = "none" /\ vr.raised = "none"
       /\ ar.raised = "none" /\ fr.raised = "none"
       /\ _all_streams = cat
       /\ _resolution = rr.new
       /\ _video_type = vr.new
       /\ _audio_type = ar.new
       /\ _fps = fr.new
       /\ _video_stream = 0
       /\ _audio_stream = 0
       /\ last = Outcome("__init__", NoneV, Return(<<>>, 0), FALSE, <<>>)

SetResolution ==
  \E raw \in ResolutionInputs :
    LET r == resolution_setter(_all_streams, raw)
    IN /\ _resolution' = IF r.assign THEN r.new ELSE _resolution
       /\ last' = Outcome("resolution", StrV(raw), r, FALSE, <<>>)
       /\ UNCHANGED <<_all_streams, _video_type, _audio_type, _fps,
                      _video_stream, _audio_stream>>

SetVideoType ==
  \E raw \in VideoTypeInputs :
    LET r == video_type_setter(_all_streams, raw)
    IN /\ _video_type' = IF r.assign THEN r.new ELSE _video_type
       /\ last' = Outcome("video_type", StrV(raw), r, FALSE, <<>>)
       /\ UNCHANGED <<_all_streams, _resolution, _audio_type, _fps,
                      _video_stream, _audio_stream>>

SetAudioType ==
  \E raw \in AudioTypeInputs :
    LET r == audio_type_setter(_all_streams, raw)
    IN /\ _audio_type' = IF r.assign THEN r.new ELSE _audio_type
       /\ last' = Outcome("audio_type", StrV(raw), r, FALSE, <<>>)
       /\ UNCHANGED <<_all_streams, _resolution, _video_type, _fps,
                      _video_stream, _audio_stream>>

SetFps ==
  \E raw \in FpsInputs :
    LET r == fps_setter(_all_streams, raw)
    IN /\ _fps' = IF r.assign THEN r.new ELSE _fps
       /\ last' = Outcome("fps", raw, r, FALSE, <<>>)
       /\ UNCHANGED <<_all_streams, _resolution, _video_type, _audio_type,
                      _video_stream, _audio_stream>>

DownloadStreams ==
  \E xfer \in Transfers :
    LET sel == _set_streams(_all_streams, _resolution, _video_type, _audio_type, _fps)
        calls == download_calls(sel, xfer)
        failed == sel.raised = "none" /\ xfer # "ok"
        r == [raised |-> IF failed THEN "TransferFailed" ELSE sel.raised,
              msg |-> IF failed THEN xfer ELSE sel.msg,
              value |-> NoneV, listed |-> {}, log |-> <<>>]
    IN /\ _video_stream' = IF sel.set_video THEN sel.video ELSE _video_stream
       /\ _audio_stream' = IF sel.set_audio THEN sel.audio ELSE _audio_stream
       /\ last' = Outcome("download_streams", NoneV, r, sel.raised = "none", calls)
       /\ UNCHANGED <<_all_streams, _resolution, _video_type, _audio_type, _fps>>

Next ==
  \/ SetResolution
  \/ SetVideoType
  \/ SetAudioType
  \/ SetFps
  \/ DownloadStreams

Spec == Init /\ [][Next]_vars

(* ------------------- vocabulary of the properties --------------------- *)

Setters == {"resolution", "video_type", "audio_type", "fps"}

IsVideoOnly(s) == type(s) = "video" /\ ~s.is_progressive
IsAudioOnly(s) == type(s) = "audio" /\ ~s.is_progressive
IsMuxed(s) == s.is_progressive

VideoOnlyIdx == { k \in 1..Len(_all_streams) : IsVideoOnly(_all_streams[k]) }
AudioOnlyIdx == { k \in 1..Len(_all_streams) : IsAudioOnly(_all_streams[k]) }

\* a mime type or a raw input without its major-type prefix
Subtype(m, prefix) ==
  IF OccursAt(m, prefix, 1) THEN SubSeq(m, Len(prefix) + 1, Len(m)) ELSE m

\* the legal set of each field: the distinct values on the descriptors of
\* the matching track kind
LegalResolutions == { _all_streams[k].resolution : k \in VideoOnlyIdx }
LegalVideoSubtypes == { Subtype(_all_streams[k].mime_type, video_) : k \in VideoOnlyIdx }
LegalAudioSubtypes == { Subtype(_all_streams[k].mime_type, audio_) : k \in AudioOnlyIdx }
LegalFps == { _all_streams[k].fps : k \in VideoOnlyIdx }

\* the normalized form of a raw input: lower-cased with a trailing "p"
NormResolution(raw) ==
  LET l == lower(raw)
  IN IF Len(l) > 0 /\ l[Len(l)] = "p" THEN l ELSE l \o p_

Coercible(arg) == arg.t = "int" \/ IsIntLiteral(arg.s)
NormFps(arg) == IF arg.t = "int" THEN arg.i ELSE IntOf(arg.s)

\* the normalized form of the argument of call l is in the legal set
ArgLegal(l) ==
  CASE l.op = "resolution" -> NormResolution(l.arg.s) \in LegalResolutions
    [] l.op = "video_type" -> Subtype(l.arg.s, video_) \in LegalVideoSubtypes
    [] l.op = "audio_type" -> Subtype(l.arg.s, audio_) \in LegalAudioSubtypes
    [] l.op = "fps" -> Coercible(l.arg) /\ NormFps(l.arg) \in LegalFps
    [] OTHER -> FALSE

\* the video-only descriptors matching the three stored video constraints
VideoMatches ==
  { k \in VideoOnlyIdx : /\ _all_streams[k].resolution = _resolution
                         /\ _all_streams[k].mime_type = _video_type
                         /\ _all_streams[k].fps = _fps }

\* the audio-only descriptors matching the stored audio constraint
AudioMatches ==
  { k \in AudioOnlyIdx : _all_streams[k].mime_type = _audio_type }

Selected == last.op = "download_streams" /\ last.selected

(* ------------------------------- C1 ----------------------------------- *)

\* C1: whenever _set_streams succeeds, the chosen video descriptor is a
\* video-only descriptor, the first in catalog order among the video-only
\* descriptors matching the stored resolution, mime type and frame rate; a
\* muxed descriptor is never chosen.
C1_VideoIsFirstVideoOnlyMatch ==
  Selected =>
    /\ _video_stream \in VideoMatches
    /\ \A k \in VideoMatches : _video_stream <= k
    /\ ~IsMuxed(_all_streams[_video_stream])

(* ------------------------------- C2 ----------------------------------- *)

\* C2: when the three video constraints are each valid but no video-only
\* descriptor matches all three at once, selection fails with the
\* video-stream-not-found error and returns no descriptor.
C2_UnsatisfiableFails ==
  (last.op = "download_streams" /\ VideoMatches = {}) =>
    /\ ~last.selected
    /\ last.raised = "ValueError"
    /\ last.msg = "video_stream_not_found"
    /\ last.retrieved = <<>>

(* ------------------------------- C3 ----------------------------------- *)

\* C3: a setter call whose normalized argument is not in the field's legal
\* set (a non-numeric frame rate included) fails, and all four stored
\* constraint fields keep the values they had before the call.
C3_FailedSetterKeepsState ==
  [][ (last'.op \in Setters /\ ~ArgLegal(last')) =>
        (last'.raised = "ValueError" /\ constraintSet' = constraintSet) ]_vars

\* a rejected frame rate, numeric or not, after which the fields are read
C3_Witness ==
  /\ last.op = "fps"
  /\ ~ArgLegal(last)
  /\ last.raised = "ValueError"

(* ------------------------------- C4 ----------------------------------- *)

\* C4: in every reachable state each stored constraint occurs on a catalog
\* descriptor of the matching track kind: video-only for resolution, video
\* mime type and frame rate, audio-only for the audio mime type.
C4_ConstraintsPresent ==
  /\ \E k \in VideoOnlyIdx : _all_streams[k].resolution = _resolution
  /\ \E k \in VideoOnlyIdx : _all_streams[k].mime_type = _video_type
  /\ \E k \in VideoOnlyIdx : _all_streams[k].fps = _fps
  /\ \E k \in AudioOnlyIdx : _all_streams[k].mime_type = _audio_type

\* a resolution carried by a muxed descriptor only has been asked for
C4_Witness ==
  /\ last.op = "resolution"
  /\ \E k \in 1..Len(_all_streams) :
       /\ IsMuxed(_all_streams[k])
       /\ _all_streams[k].resolution = NormResolution(last.arg.s)
  /\ NormResolution(last.arg.s) \notin LegalResolutions

(* ------------------------------- C5 ----------------------------------- *)

\* C5 as stated: after setting a field to a legal value, the read of the
\* field returns the normalized form: for the mime constraints the subtype
\* with the major-type prefix stripped.
C5_ReadReturnsStripped ==
  /\ (last.op = "resolution" /\ ArgLegal(last)) =>
       (last.raised = "none" /\ _resolution = NormResolution(last.arg.s))
  /\ (last.op = "video_type" /\ ArgLegal(last)) =>
       (last.raised = "none" /\ _video_type = Subtype(last.arg.s, video_))
  /\ (last.op = "audio_type" /\ ArgLegal(last)) =>
       (last.raised = "none" /\ _audio_type = Subtype(last.arg.s, audio_))
  /\ (last.op = "fps" /\ ArgLegal(last)) =>
       (last.raised = "none" /\ _fps = NormFps(last.arg))

\* C5 amended: setting a field to a legal value succeeds; the read returns
\* the lower-cased resolution ending in "p", the frame rate as an integer,
\* and for the mime constraints the full mime type, "video/" or "audio/"
\* followed by the stripped subtype.
C5_ReadReturnsStored ==
  /\ (last.op = "resolution" /\ ArgLegal(last)) =>
       (last.raised = "none" /\ _resolution = NormResolution(last.arg.s))
  /\ (last.op = "video_type" /\ ArgLegal(last)) =>
       (last.raised = "none" /\ _video_type = video_ \o Subtype(last.arg.s, video_))
  /\ (last.op = "audio_type" /\ ArgLegal(last)) =>
       (last.raised = "none" /\ _audio_type = audio_ \o Subtype(last.arg.s, audio_))
  /\ (last.op = "fps" /\ ArgLegal(last)) =>
       (last.raised = "none" /\ _fps = NormFps(last.arg))

\* an upper-case resolution without the suffix has been set and read back
C5_Witness ==
  /\ last.op = "resolution"
  /\ lower(last.arg.s) # last.arg.s
  /\ ArgLegal(last)
  /\ _resolution = NormResolution(last.arg.s)

(* ------------------------------- C6 ----------------------------------- *)

\* C6: whenever _set_streams succeeds, the chosen audio descriptor is an
\* audio-only descriptor with the stored audio mime type whose bitrate is
\* at least the bitrate of every audio-only descriptor with that mime type.
C6_AudioIsHighestBitrate ==
  Selected =>
    /\ _audio_stream \in AudioMatches
    /\ \A k \in AudioMatches :
         abr_key(_all_streams[_audio_stream]) >= abr_key(_all_streams[k])

\* two candidates of different bitrate, the higher one first in the catalog
C6_Witness ==
  /\ Selected
  /\ \E j, k \in AudioMatches :
       /\ j < k
       /\ abr_key(_all_streams[j]) > abr_key(_all_streams[k])

(* ------------------------------- C7 ----------------------------------- *)

\* C7: the failure of a setter carries the rejected value and the full
\* legal set of the field.
C7_FailureCarriesLegalSet ==
  (last.op \in Setters /\ last.raised = "ValueError") =>
    CASE last.op = "resolution" ->
           /\ last.value = StrV(NormResolution(last.arg.s))
           /\ last.listed = { StrV(x) : x \in LegalResolutions }
      [] last.op = "video_type" ->
           /\ last.value = StrV(Subtype(last.arg.s, video_))
           /\ last.listed = { StrV(x) : x \in LegalVideoSubtypes }
      [] last.op = "audio_type" ->
           /\ last.value = StrV(Subtype(last.arg.s, audio_))
           /\ last.listed = { StrV(x) : x \in LegalAudioSubtypes }
      [] last.op = "fps" ->
           /\ last.value = (IF Coercible(last.arg) THEN IntV(NormFps(last.arg)) ELSE last.arg)
           /\ last.listed = { IntV(x) : x \in LegalFps }

(* ------------------------------- C8 ----------------------------------- *)

\* C8: a frame rate that cannot be coerced to an integer fails with a parse
\* error distinct from the not-available error; a numeric string is coerced
\* to its integer value before the legal-set check.
C8_ParseErrorReported ==
  /\ (last.op = "fps" /\ ~Coercible(last.arg)) =>
       (last.raised # "none" /\ last.msg # "fps_not_available")
  /\ (last.op = "fps" /\ last.arg.t = "str" /\ Coercible(last.arg)) =>
       IF NormFps(last.arg) \in LegalFps
       THEN last.raised = "none" /\ _fps = NormFps(last.arg)
       ELSE last.raised = "ValueError" /\ last.value = IntV(NormFps(last.arg))

(* ------------------------------- C9 ----------------------------------- *)

VideoCall == [stream |-> _video_stream, filename_prefix |-> "video_"]
AudioCall == [stream |-> _audio_stream, filename_prefix |-> "audio_"]

\* the stored selection is whole and selected under the stored constraints
FreshSelection ==
  /\ _video_stream \in 1..Len(_all_streams)
  /\ _all_streams[_video_stream].resolution = _resolution
  /\ _all_streams[_video_stream].mime_type = _video_type
  /\ _all_streams[_video_stream].fps = _fps
  /\ _audio_stream \in 1..Len(_all_streams)
  /\ _all_streams[_audio_stream].mime_type = _audio_type

NeverPartial == (_video_stream = 0) <=> (_audio_stream = 0)

\* C9 as stated: in every call of download_streams in which selection
\* succeeds the Retriever is invoked exactly once for the selected video
\* descriptor and then once for the selected audio descriptor; when
\* selection fails it is invoked zero times; the stored selection never
\* has only one descriptor assigned.
C9_RetrievesTwiceAfterSelection ==
  /\ NeverPartial
  /\ (last.op = "download_streams" /\ ~last.selected) => last.retrieved = <<>>
  /\ Selected => (FreshSelection /\ last.retrieved = <<VideoCall, AudioCall>>)

\* C9 amended: the Retriever is invoked only after both sub-selections of
\* the call succeeded, first for the selected video descriptor and then,
\* unless that transfer failed, for the selected audio descriptor, each at
\* most once; when selection fails there is no call; the stored selection
\* never has only one descriptor assigned.
C9_RetrievesInOrderAfterSelection ==
  /\ NeverPartial
  /\ (last.op = "download_streams" /\ ~last.selected) => last.retrieved = <<>>
  /\ Selected =>
       /\ FreshSelection
       /\ IF last.raised = "TransferFailed" /\ last.msg = "video_fails"
          THEN last.retrieved = <<VideoCall>>
          ELSE last.retrieved = <<VideoCall, AudioCall>>

\* a download that returned normally with both calls made
C9_Witness ==
  /\ Selected
  /\ last.raised = "none"
  /\ Len(last.retrieved) = 2

(* ------------------------------- C10 ---------------------------------- *)

\* C10: in every reachable state some catalog descriptor has the stored
\* audio mime type, so _set_streams never takes the last element of an
\* empty candidate list and never fails for lack of audio candidates.
C10_AudioCandidatesNonEmpty ==
  /\ \E k \in 1..Len(_all_streams) : _all_streams[k].mime_type = _audio_type
  /\ last.op = "download_streams" =>
       /\ last.raised # "IndexError"
       /\ last.msg # "audio_stream_not_found"

\* a selection took the last audio candidate in a catalog offering two
\* audio types
C10_Witness ==
  /\ Selected
  /\ _audio_stream # 0
  /\ Cardinality(LegalAudioSubtypes) > 1

====
